---- MODULE Spec2Model ----
(***************************************************************************)
(* Model of the card detector: cards.py (get_card_contours, process_card,  *)
(* flattener, get_card_rank, load_ranks) and the script main.py.           *)
(*                                                                         *)
(* OpenCV is outside the repository.  Its results are inputs: the curves   *)
(* findContours returns (area, approximated polygon, parent), the bounding *)
(* rectangle of a contour, the foreground contours of the cropped corner,  *)
(* the image a file holds.  Everything the repository's code computes from *)
(* them is computed here as the code computes it.                          *)
(*                                                                         *)
(* Sequences are 1-based here and 0-based in Python; values that are       *)
(* Python indices held as data (a hierarchy parent) keep their Python      *)
(* value, so -1 is "no parent" and 0 is the first curve.                   *)
(***************************************************************************)
EXTENDS Integers, Sequences, FiniteSets, TLC

VARIABLES
    cnts,        \* get_card_contours: curves of findContours, detection order
    hier,        \* get_card_contours: hier[0][i][3], the parent of curve i
    index_sort,  \* get_card_contours: curve indices sorted by area
    cnts_sort,   \* get_card_contours: curves in sorted order
    hier_sort,   \* get_card_contours: hierarchy in sorted order
    card_info,   \* get_card_contours: the returned list of card objects
    this_card,   \* the card object handed to process_card / get_card_rank
    flat,        \* flattener: temp_rect and which branch wrote which row
    stage,       \* position of the per-card pipeline
    ranks,       \* main.py: the list load_ranks returned
    img,         \* main.py: the image read at line 19
    pc,          \* main.py: the line the script is at
    err          \* the exception that ended the last call, "none" if none

vars == <<cnts, hier, index_sort, cnts_sort, hier_sort, card_info,
          this_card, flat, stage, ranks, img, pc, err>>

----------------------------------------------------------------------------
(* Constants of cards.py *)

CARD_MAX_AREA == 6000
CARD_MIN_AREA == 3500
RANK_THRESH == 30
maxWidth == 200
maxHeight == 300

rank_names == <<"Ace", "Two", "Three", "Four", "Five", "Six", "Seven",
                "Eight", "Nine", "Ten", "Jack", "Queen", "King">>

(* Bounds of the model *)

MaxCnts == 3      \* curves findContours returns for one image
MaxCoord == 2     \* corner coordinates range over 0..MaxCoord
MaxSlack == 2     \* how far the contour's bounding box exceeds its corners'

----------------------------------------------------------------------------
(* Python helpers *)

Range(s) == {s[i] : i \in 1..Len(s)}

Min(S) == CHOOSE x \in S : \A y \in S : x <= y
Max(S) == CHOOSE x \in S : \A y \in S : x >= y

\* np.argmin / np.argmax over a flattened array: the first index of the extreme
argmin(f) == Min({i \in DOMAIN f : \A j \in DOMAIN f : f[i] <= f[j]})
argmax(f) == Min({i \in DOMAIN f : \A j \in DOMAIN f : f[i] >= f[j]})

----------------------------------------------------------------------------
(* card.__init__ and rank.__init__ *)

card == [contour |-> <<>>, corner_pts |-> <<>>, center |-> <<>>, img |-> <<>>,
         rank_img |-> <<>>, best_rank_match |-> "Unknown", rank_diff |-> 0]

rank == [rank |-> "rank_name", img |-> <<>>]

\* Python's None where an image is expected.  An image is the tuple of its
\* pixels, each in 0..255, so no image equals it.
None == <<-1>>

----------------------------------------------------------------------------
(* get_card_contours *)

\* The polygon approxPolyDP returns for a curve: n distinct vertices.
Polygon(n) == [k \in 1..n |-> <<k, k * k>>]

\* Width and height of the smallest upright box around the points of p
\* (cv2.boundingRect counts pixels: both ends included).
BoxW(p) == Max({p[i][1] : i \in DOMAIN p}) - Min({p[i][1] : i \in DOMAIN p}) + 1
BoxH(p) == Max({p[i][2] : i \in DOMAIN p}) - Min({p[i][2] : i \in DOMAIN p}) + 1

\* The areas cv2.contourArea is let to return: around both limits, and between.
Areas == {CARD_MIN_AREA - 1, CARD_MIN_AREA, 4500,
          CARD_MAX_AREA, CARD_MAX_AREA + 1}

\* One curve of findContours: id is its position in detection order (what
\* tells two curves of equal area and shape apart), area is cv2.contourArea
\* of it, approx is cv2.approxPolyDP of it.
Curve(i, a, poly) == [id |-> i, area |-> a, approx |-> poly]

\* The same with w and h, the cv2.boundingRect of the curve, which only
\* process_card reads.
BoxedCurve(i, a, poly, w, h) ==
    [id |-> i, area |-> a, approx |-> poly, w |-> w, h |-> h]

contourArea(c) == c.area
approxPolyDP(c) == c.approx

\* What findContours(RETR_TREE) can return for an image holding n curves: each
\* curve has no parent (-1) or another, larger curve as its parent.
ValidParents(a, p) ==
    \A i \in DOMAIN p :
        p[i] # -1 => /\ p[i] + 1 # i
                     /\ a[p[i] + 1] > a[i]

\* The vertex counts approxPolyDP is let to return.
NVerts == {3, 4, 5}

\* The n curves with areas a, vertex counts v, in detection order.
Contours(n, a, v) == [i \in 1..n |-> Curve(i, a[i], Polygon(v[i]))]

\* sorted(range(len(cnts)), key=contourArea, reverse=True): Python's sort is
\* stable, also with reverse=True: of the indices left, the largest area goes
\* next, and among equal areas the lowest index.
RECURSIVE SortFrom(_, _)
SortFrom(c, left) ==
    IF left = {} THEN <<>>
    ELSE LET m == Max({contourArea(c[i]) : i \in left})
             i == Min({j \in left : contourArea(c[j]) = m})
         IN  <<i>> \o SortFrom(c, left \ {i})

\* The ascending stable sort read backwards (sorted(...)[::-1]): among equal
\* areas the highest index goes first.
RECURSIVE SortFromReversed(_, _)
SortFromReversed(c, left) ==
    IF left = {} THEN <<>>
    ELSE LET m == Max({contourArea(c[i]) : i \in left})
             i == Max({j \in left : contourArea(c[j]) = m})
         IN  <<i>> \o SortFromReversed(c, left \ {i})

sorted_index_reversed(c) == SortFromReversed(c, DOMAIN c)

sorted_index(c) == SortFrom(c, DOMAIN c)

\* The test without its last conjunct: a curve inside another passes.
is_card_any_parent(size, approx, parent) ==
    /\ size < CARD_MAX_AREA
    /\ size > CARD_MIN_AREA
    /\ Len(approx) = 4

\* The test of lines 115-116 on the i-th sorted curve.
is_card(size, approx, parent) ==
    /\ size < CARD_MAX_AREA
    /\ size > CARD_MIN_AREA
    /\ Len(approx) = 4
    /\ parent = -1

\* Lines 117-119: the card object made of an accepted curve.
new_card(c) == [card EXCEPT !.contour = c, !.corner_pts = approxPolyDP(c)]

\* Lines 100-122: the loop over the sorted curves, appending the accepted ones.
RECURSIVE card_loop(_, _, _)
card_loop(cs, hs, i) ==
    IF i > Len(cs) THEN <<>>
    ELSE (IF is_card(contourArea(cs[i]), approxPolyDP(cs[i]), hs[i])
          THEN <<new_card(cs[i])>> ELSE <<>>)
         \o card_loop(cs, hs, i + 1)

\* The card and per-card state no call has touched yet.
NoCard == card
NoFlat == [temp_rect |-> [k \in 1..4 |-> <<0, 0>>],
           writes |-> [k \in 1..4 |-> 0], branches |-> {}]

\* get_card_contours(image): lines 81-136, on the curves findContours finds
\* in the image.  The try block of lines 85-134 cannot raise: with no curve
\* the loops do not run.
get_card_contours ==
    /\ stage = "image"
    /\ index_sort' = sorted_index(cnts)
    /\ cnts_sort' = [k \in 1..Len(cnts) |-> cnts[index_sort'[k]]]
    /\ hier_sort' = [k \in 1..Len(cnts) |-> hier[index_sort'[k]]]
    /\ card_info' = card_loop(cnts_sort', hier_sort', 1)
    /\ stage' = "cards"
    /\ err' = "none"
    /\ UNCHANGED <<cnts, hier, this_card, flat, ranks, img, pc>>

\* An image to process: cnts and hier hold what findContours (line 81)
\* returns for it.
InitExtract ==
    /\ \E n \in 0..MaxCnts :
       \E a \in [1..n -> Areas], p \in [1..n -> -1..(n - 1)] :
        /\ ValidParents(a, p)
        /\ hier = p
        /\ \E v \in [1..n -> NVerts] : cnts = Contours(n, a, v)
    /\ index_sort = <<>> /\ cnts_sort = <<>> /\ hier_sort = <<>>
    /\ card_info = <<>>
    /\ this_card = NoCard /\ flat = NoFlat /\ stage = "image"
    /\ ranks = <<>> /\ img = None /\ pc = "none" /\ err = "none"

NextExtract == get_card_contours

SpecExtract == InitExtract /\ [][NextExtract]_vars

----------------------------------------------------------------------------
(* Properties of get_card_contours *)

\* The curve c is the contour of one of the returned cards.
InResult(c) == \E k \in 1..Len(card_info) : card_info[k].contour = c

\* C1: a parentless curve with a 4-vertex polygon is accepted when its area
\* is exactly CARD_MIN_AREA or exactly CARD_MAX_AREA, and rejected when its
\* area is one below CARD_MIN_AREA or one above CARD_MAX_AREA.
C1_InclusiveBounds ==
    stage = "cards" =>
        \A i \in 1..Len(cnts) :
            (Len(approxPolyDP(cnts[i])) = 4 /\ hier[i] = -1) =>
                /\ contourArea(cnts[i]) \in {CARD_MIN_AREA, CARD_MAX_AREA}
                       => InResult(cnts[i])
                /\ contourArea(cnts[i]) \in {CARD_MIN_AREA - 1, CARD_MAX_AREA + 1}
                       => ~InResult(cnts[i])

\* C2: every returned card has 4 corner points and comes from a curve of the
\* image that has no parent and an area inside the card-area range; a curve
\* failing one of the three conditions is not in the result, and no error
\* is raised.
C2_CardsPassFilter ==
    stage = "cards" =>
        /\ err = "none"
        /\ \A k \in 1..Len(card_info) :
            /\ Len(card_info[k].corner_pts) = 4
            /\ \E i \in 1..Len(cnts) :
                /\ cnts[i] = card_info[k].contour
                /\ hier[i] = -1
                /\ contourArea(cnts[i]) >= CARD_MIN_AREA
                /\ contourArea(cnts[i]) <= CARD_MAX_AREA
        /\ \A i \in 1..Len(cnts) :
            (\/ Len(approxPolyDP(cnts[i])) # 4
             \/ hier[i] # -1
             \/ contourArea(cnts[i]) < CARD_MIN_AREA
             \/ contourArea(cnts[i]) > CARD_MAX_AREA) => ~InResult(cnts[i])

\* C2 witness: a card was returned, and curves failing each of the three
\* conditions were left out.
C2_Witness ==
    /\ stage = "cards"
    /\ Len(card_info) = 1
    /\ \E i, j \in 1..Len(cnts) :
        /\ hier[i] # -1 /\ Len(approxPolyDP(cnts[i])) = 4
        /\ contourArea(cnts[i]) = CARD_MIN_AREA
        /\ hier[j] = -1 /\ Len(approxPolyDP(cnts[j])) = 5

----------------------------------------------------------------------------
(* load_ranks *)

\* The image the file of the k-th rank
\* name holds: four pixels of 0 or 255 spelling k in binary, so that the
\* thirteen templates differ from one another.
Bit(k, b) == IF (k \div b) % 2 = 1 THEN 255 ELSE 0
FileImage(k) == <<Bit(k, 8), Bit(k, 4), Bit(k, 2), Bit(k, 1)>>

\* cv2.imread(img_path, IMREAD_GRAYSCALE): the image, or None with no error
\* when the file is missing or unreadable.
imread(k, missing) == IF rank_names[k] \in missing THEN None ELSE FileImage(k)

\* load_ranks(path), lines 188-204: one rank object per name, in order.
load_ranks(missing) ==
    [k \in 1..Len(rank_names) |->
        [rank EXCEPT !.img = imread(k, missing), !.rank = rank_names[k]]]

----------------------------------------------------------------------------
(* flattener *)

\* np.sum(pts, axis = 2): x + y of each point.
np_sum(pt) == pt[1] + pt[2]

\* The difference taken the other way round: x - y.
np_diff_x_minus_y(pt) == pt[1] - pt[2]

\* np.diff(pts, axis = -1): a[i+1] - a[i] along the last axis, so y - x.
np_diff(pt) == pt[2] - pt[1]

\* The conditions of lines 225, 231 and 241.  w and h are integers, and
\* w <= 0.8*h in doubles decides as 10w <= 8h does (likewise 1.2): the two
\* agree on every 1 <= h < 3000, 1 <= w <= 3h + 1.
is_vertical(w, h) == 10 * w <= 8 * h
is_horizontal(w, h) == 10 * w >= 12 * h

\* The diamond test with both limits let in: w >= 0.8*h and w <= 1.2*h.
is_diamond_closed(w, h) == 10 * w >= 8 * h /\ 10 * w <= 12 * h

is_diamond(w, h) == 10 * w > 8 * h /\ 10 * w < 12 * h

\* The conditions of lines 244 and 254: pts[1][0][1] against pts[3][0][1].
\* The left-tilt test with < for <=.
tilt_left_strict(pts) == pts[2][2] < pts[4][2]

tilt_left(pts) == pts[2][2] <= pts[4][2]
tilt_right(pts) == pts[2][2] > pts[4][2]

\* The four assignments temp_rect[0..3] = ... of one branch, applied to the
\* array f: each row is overwritten, counted, and the branch noted.
assign(f, rows, branch) ==
    [temp_rect |-> rows,
     writes |-> [k \in 1..4 |-> f.writes[k] + 1],
     branches |-> f.branches \cup {branch}]

\* flattener(image, pts, w, h), lines 210-260: temp_rect starts as zeros and
\* the if statements run one after the other.
flattener(pts, w, h) ==
    LET s == [i \in 1..4 |-> np_sum(pts[i])]
        tl == pts[argmin(s)]
        br == pts[argmax(s)]
        diff == [i \in 1..4 |-> np_diff(pts[i])]
        tr == pts[argmin(diff)]
        bl == pts[argmax(diff)]
        f0 == NoFlat
        f1 == IF is_vertical(w, h)
              THEN assign(f0, <<tl, tr, br, bl>>, "vertical") ELSE f0
        f2 == IF is_horizontal(w, h)
              THEN assign(f1, <<bl, tl, tr, br>>, "horizontal") ELSE f1
        f3 == IF is_diamond(w, h) /\ tilt_left(pts)
              THEN assign(f2, <<pts[2], pts[1], pts[4], pts[3]>>, "diamond_left")
              ELSE f2
        f4 == IF is_diamond(w, h) /\ tilt_right(pts)
              THEN assign(f3, <<pts[1], pts[4], pts[3], pts[2]>>, "diamond_right")
              ELSE f3
    IN  f4

----------------------------------------------------------------------------
(* process_card and get_card_rank *)

\* z component of (b - a) x (c - a)
Cross(a, b, c) == (b[1] - a[1]) * (c[2] - a[2]) - (b[2] - a[2]) * (c[1] - a[1])

\* Segments ab and cd cross each other.
Crosses(a, b, c, d) ==
    /\ Cross(a, b, c) * Cross(a, b, d) < 0
    /\ Cross(c, d, a) * Cross(c, d, b) < 0

\* The 4-vertex polygons approxPolyDP can return for a closed curve, in the
\* order the curve is walked: no three vertices on one line (so no two are
\* equal) and no two sides crossing.
IsQuad(p) ==
    /\ \A i, j, k \in 1..4 : (i < j /\ j < k) => Cross(p[i], p[j], p[k]) # 0
    /\ ~Crosses(p[1], p[2], p[3], p[4])
    /\ ~Crosses(p[2], p[3], p[4], p[1])

Coords == 0..MaxCoord

Quads == {p \in [1..4 -> Coords \X Coords] : IsQuad(p)}

\* The contours of the thresholded corner (line 167), each given by the image
\* that cropping and resizing it yields (lines 172-174): none, a glyph equal
\* to the King template, or an all-white glyph equal to no template.
RankContours == {<<>>, <<FileImage(13)>>, <<<<255, 255, 255, 255>>>>}

\* process_card(this_card, image), lines 142-176.
process_card ==
    /\ stage = "card"
    /\ LET w == this_card.contour.w
           h == this_card.contour.h
           pts == this_card.corner_pts
           cent_x == (pts[1][1] + pts[2][1] + pts[3][1] + pts[4][1]) \div Len(pts)
           cent_y == (pts[1][2] + pts[2][2] + pts[3][2] + pts[4][2]) \div Len(pts)
       IN  /\ flat' = flattener(pts, w, h)
           /\ \E this_rank_cnts \in RankContours :
                this_card' =
                    [width |-> w, height |-> h] @@
                    [this_card EXCEPT
                        !.center = <<cent_x, cent_y>>,
                        !.img = <<maxWidth, maxHeight>>,
                        !.rank_img = IF Len(this_rank_cnts) # 0
                                     THEN this_rank_cnts[1] ELSE @]
    /\ stage' = "processed"
    /\ err' = "none"
    /\ UNCHANGED <<cnts, hier, index_sort, cnts_sort, hier_sort, card_info,
                   ranks, img, pc>>

\* get_card_rank(card_img), lines 178-183: the body is the return statement
\* alone, and the three names it returns are bound nowhere: NameError.
get_card_rank ==
    /\ stage = "processed"
    /\ stage' = "classified"
    /\ err' = "NameError"
    /\ UNCHANGED <<cnts, hier, index_sort, cnts_sort, hier_sort, card_info,
                   this_card, flat, ranks, img, pc>>

\* A card as get_card_contours returns it: a parentless 4-vertex curve with an
\* area in range, whose bounding box holds its vertices.
InitCard ==
    /\ cnts = <<>> /\ hier = <<>> /\ index_sort = <<>>
    /\ cnts_sort = <<>> /\ hier_sort = <<>> /\ card_info = <<>>
    /\ \E p \in Quads : \E dw, dh \in 0..MaxSlack :
         this_card = new_card(BoxedCurve(1, 4500, p, BoxW(p) + dw, BoxH(p) + dh))
    /\ flat = NoFlat /\ stage = "card"
    /\ ranks = load_ranks({}) /\ img = None /\ pc = "none" /\ err = "none"

NextCard == process_card \/ get_card_rank

SpecCard == InitCard /\ [][NextCard]_vars

----------------------------------------------------------------------------
(* Properties of process_card, flattener and get_card_rank *)

\* process_card has run on this_card.
Processed == stage \in {"processed", "classified"}

\* The corner points with the least, and with the greatest, value of g.
LeastOf(g(_), pts) ==
    {pts[i] : i \in {j \in 1..4 : \A k \in 1..4 : g(pts[j]) <= g(pts[k])}}
GreatestOf(g(_), pts) ==
    {pts[i] : i \in {j \in 1..4 : \A k \in 1..4 : g(pts[j]) >= g(pts[k])}}

XPlusY(pt) == pt[1] + pt[2]
XMinusY(pt) == pt[1] - pt[2]
YMinusX(pt) == pt[2] - pt[1]

\* C7 as stated: for a vertical candidate the source points are the corners
\* with (minimum x+y, minimum x-y, maximum x+y, maximum x-y).
C7_ExtremaXMinusY ==
    (Processed /\ 10 * this_card.width <= 8 * this_card.height) =>
        /\ flat.temp_rect[1] \in LeastOf(XPlusY, this_card.corner_pts)
        /\ flat.temp_rect[2] \in LeastOf(XMinusY, this_card.corner_pts)
        /\ flat.temp_rect[3] \in GreatestOf(XPlusY, this_card.corner_pts)
        /\ flat.temp_rect[4] \in GreatestOf(XMinusY, this_card.corner_pts)

\* C7 amended: for a vertical candidate the source points are the corners
\* with (minimum x+y, minimum y-x, maximum x+y, maximum y-x): the difference
\* is y minus x.
C7_ExtremaYMinusX ==
    (Processed /\ 10 * this_card.width <= 8 * this_card.height) =>
        /\ flat.temp_rect[1] \in LeastOf(XPlusY, this_card.corner_pts)
        /\ flat.temp_rect[2] \in LeastOf(YMinusX, this_card.corner_pts)
        /\ flat.temp_rect[3] \in GreatestOf(XPlusY, this_card.corner_pts)
        /\ flat.temp_rect[4] \in GreatestOf(YMinusX, this_card.corner_pts)

\* C7 witness: a vertical candidate was flattened, and its second source
\* point is the one corner with the least y-x, which no corner with the
\* least x-y is.
C7_Witness ==
    /\ Processed
    /\ 10 * this_card.width <= 8 * this_card.height
    /\ LeastOf(YMinusX, this_card.corner_pts) = {flat.temp_rect[2]}
    /\ flat.temp_rect[2] \notin LeastOf(XMinusY, this_card.corner_pts)

\* C8: for a diamond candidate the source points are (v1, v0, v3, v2) when
\* v1.y <= v3.y and (v0, v3, v2, v1) when v1.y > v3.y, and exactly one of
\* the two permutations is applied, also when v1.y = v3.y.
C8_DiamondPermutation ==
    (/\ Processed
     /\ 10 * this_card.width > 8 * this_card.height
     /\ 10 * this_card.width < 12 * this_card.height) =>
        LET v == this_card.corner_pts
        IN  /\ v[2][2] <= v[4][2] =>
                /\ flat.temp_rect = <<v[2], v[1], v[4], v[3]>>
                /\ flat.branches = {"diamond_left"}
            /\ v[2][2] > v[4][2] =>
                /\ flat.temp_rect = <<v[1], v[4], v[3], v[2]>>
                /\ flat.branches = {"diamond_right"}

\* C8 witness: a diamond candidate with v1.y = v3.y was flattened.
C8_Witness ==
    /\ Processed
    /\ 10 * this_card.width > 8 * this_card.height
    /\ 10 * this_card.width < 12 * this_card.height
    /\ this_card.corner_pts[2][2] = this_card.corner_pts[4][2]
    /\ flat.branches = {"diamond_left"}

\* C9: for every bounding box exactly one orientation branch runs (vertical
\* iff w <= 0.8h, horizontal iff w >= 1.2h, diamond otherwise), and each of
\* the four source points is assigned exactly once.
C9_OneBranch ==
    Processed =>
        LET w == this_card.width
            h == this_card.height
        IN  /\ w >= 1 /\ h >= 1
            /\ Cardinality(flat.branches) = 1
            /\ "vertical" \in flat.branches <=> 10 * w <= 8 * h
            /\ "horizontal" \in flat.branches <=> 10 * w >= 12 * h
            /\ flat.branches \subseteq {"diamond_left", "diamond_right"}
                   <=> (10 * w > 8 * h /\ 10 * w < 12 * h)
            /\ \A k \in 1..4 : flat.writes[k] = 1

\* C9 witness: a box on the limit w = 0.8h (4 by 5) was flattened by the
\* vertical branch.
C9_Witness ==
    /\ Processed
    /\ this_card.width = 4 /\ this_card.height = 5
    /\ flat.branches = {"vertical"}

\* C10: the four source points handed to the perspective transform are a
\* permutation of the four corner points: each corner is used exactly once.
C10_SourceIsPermutation ==
    Processed =>
        \E q \in [1..4 -> 1..4] :
            /\ \A i, j \in 1..4 : i # j => q[i] # q[j]
            /\ \A i \in 1..4 : flat.temp_rect[i] = this_card.corner_pts[q[i]]

\* The classifier of the specification: the dissimilarity of two images (sum
\* of the absolute pixel differences over the image area), and the first
\* template of least dissimilarity when that is below RANK_THRESH.
Abs(x) == IF x < 0 THEN -x ELSE x
RECURSIVE SumAbsDiff(_, _, _)
SumAbsDiff(a, b, i) ==
    IF i > Len(a) THEN 0 ELSE Abs(a[i] - b[i]) + SumAbsDiff(a, b, i + 1)
Dissimilarity(a, b) == SumAbsDiff(a, b, 1) \div Len(a)
LeastScore(g) == Min({Dissimilarity(g, ranks[k].img) : k \in 1..Len(ranks)})
FirstBest(g) ==
    Min({k \in 1..Len(ranks) : Dissimilarity(g, ranks[k].img) = LeastScore(g)})
ExpectedMatch(g) ==
    IF LeastScore(g) < RANK_THRESH THEN ranks[FirstBest(g)].rank ELSE "Unknown"

\* C4: for a card with a non-empty rank glyph, classification sets
\* best_rank_match to the first template of least dissimilarity when that is
\* below RANK_THRESH and to "Unknown" otherwise; a glyph identical to the
\* King template gives King with score 0.
C4_BestMatch ==
    (stage = "classified" /\ this_card.rank_img # <<>>) =>
        /\ this_card.best_rank_match = ExpectedMatch(this_card.rank_img)
        /\ this_card.rank_img = ranks[13].img =>
            /\ this_card.best_rank_match = "King"
            /\ this_card.rank_diff = 0

\* C5: when no foreground contour is found, process_card returns with the
\* rank glyph left empty, and classification of the card ends with
\* best_rank_match "Unknown" and no error raised.
C5_EmptyGlyphUnrecognized ==
    /\ (stage = "processed" /\ this_card.rank_img = <<>>) => err = "none"
    /\ (stage = "classified" /\ this_card.rank_img = <<>>) =>
        /\ this_card.best_rank_match = "Unknown"
        /\ err = "none"

----------------------------------------------------------------------------
(* main.py *)

\* Line 16: ranks = cards.load_ranks(rank_path).  Which files are missing is
\* the state of the disk.
main_load_ranks ==
    /\ pc = "line16"
    /\ \E missing \in SUBSET Range(rank_names) : ranks' = load_ranks(missing)
    /\ pc' = "line19"
    /\ UNCHANGED <<cnts, hier, index_sort, cnts_sort, hier_sort, card_info,
                   this_card, flat, stage, img, err>>

\* Lines 19-20: img = cv2.imread(...), None when the file cannot be read.
main_imread ==
    /\ pc = "line19"
    /\ img' \in {None, FileImage(0)}
    /\ pc' = "line23"
    /\ UNCHANGED <<cnts, hier, index_sort, cnts_sort, hier_sort, card_info,
                   this_card, flat, stage, ranks, err>>

\* Line 23: all_cards = cards.findCards(img).  cards.py defines no findCards:
\* AttributeError, and the script ends.
main_findCards ==
    /\ pc = "line23"
    /\ err' = "AttributeError"
    /\ pc' = "exit"
    /\ UNCHANGED <<cnts, hier, index_sort, cnts_sort, hier_sort, card_info,
                   this_card, flat, stage, ranks, img>>

InitMain ==
    /\ cnts = <<>> /\ hier = <<>> /\ index_sort = <<>>
    /\ cnts_sort = <<>> /\ hier_sort = <<>> /\ card_info = <<>>
    /\ this_card = NoCard /\ flat = NoFlat /\ stage = "none"
    /\ ranks = <<>> /\ img = None /\ pc = "line16" /\ err = "none"

NextMain == main_load_ranks \/ main_imread \/ main_findCards

SpecMain == InitMain /\ [][NextMain]_vars

----------------------------------------------------------------------------
(* Properties of main.py *)

\* All 13 templates hold an image.
LibraryComplete ==
    /\ Len(ranks) = Len(rank_names)
    /\ \A k \in 1..Len(ranks) : ranks[k].img # None

\* C6: with a template file missing or unreadable, loading ends the run, and
\* the script is never past load_ranks, at or after the per-frame call, with
\* fewer than 13 valid template images.
C6_IncompleteLibraryIsFatal ==
    pc \in {"line19", "line23", "exit"} => LibraryComplete

====
